---- MODULE Spec2Model ----
(***************************************************************************)
(* Profile construction, resampling and shortening of                      *)
(* antarctic_plots/profile.py, as a state machine whose steps are calls of *)
(* the public functions.                                                   *)
(*                                                                         *)
(* Numbers.  Coordinates are integers (projected metres).  np.sqrt is      *)
(* modelled on the same lattice: Isqrt is the square root rounded down to  *)
(* the lattice unit, and np.linspace rounds each sample down likewise.     *)
(* A missing value (pandas NaN / Python None) is the empty tuple <<>> and  *)
(* a present value v is <<v>>.                                             *)
(*                                                                         *)
(* Tables.  A pandas DataFrame is a sequence of rows in row order; every   *)
(* row is a record of its index label ("index") and its columns.           *)
(***************************************************************************)
EXTENDS Integers, Sequences, FiniteSets, TLC

VARIABLES
  op,       \* the function called last, "init" before any call
  args,     \* its arguments
  df,       \* rows of the table passed to it
  ret,      \* rows of the table it returned
  raised,   \* the kind of exception that left it, or "none"
  logged,   \* whether it called logging.info
  dfm,      \* column order and index name of the table passed to it
  retm,     \* column order and index name of the table it returned
  arg,      \* the table object passed to it, as the caller finds it afterwards
  effects,  \* the calls it made to the external backends, in order
  msg,      \* the message of the exception
  sampled,  \* the sampled_name of every sample_grids call on this profile
  data,     \* the second table plot_profile builds (df_data)
  lines,    \* the module's global `lines`: the list object it is bound to
  heap,     \* the list objects made by draw_lines, by reference
  maps      \* one per draw_lines call: the list returned, the events delivered

(* The state of the interactive drawing. *)
drawn == <<lines, heap, maps>>

vars == <<op, args, df, ret, raised, logged, dfm, retm, arg, effects, msg, sampled,
          data, lines, heap, maps>>

(* ------------------------------ bounds -------------------------------- *)

MaxVerts == 5

MaxNum == 4

(* The largest number of subplots asked of square_subplots. *)
MaxPlots == 17

(* The largest number of sample_grids calls made on one profile. *)
MaxSamples == 3

(* The largest number of draw_lines calls and of draw events delivered. *)
MaxMaps == 2

MaxEvents == 3

(* The largest number of rows of a table given to points_inside_region. *)
MaxRows == 3

(* Vertices a polyline or a shapefile geometry is drawn from. *)
Verts == {<<0, 0>>, <<3, 4>>, <<3, 9>>}

(* Endpoints of the "points" method. *)
Ends == {<<0, 0>>, <<10, 0>>, <<6, 8>>, <<12, 12>>}

(* Values of max_dist / min_dist handed to shorten. *)
Bounds == {0, 5, 10}

(* Values the cubic spline may give a column at an inserted distance. *)
InterpVals == {<<0, 0>>, <<3, 9>>}

(* ------------------------------ values -------------------------------- *)

(* Column order and index name of a table. *)
Meta(cols, name) == [cols |-> cols, name |-> name]

NoMeta == Meta(<<>>, <<>>)

(* The columns create_profile returns; the index is an unnamed RangeIndex. *)
XYD == Meta(<<"x", "y", "dist">>, <<>>)

(* A table object as its holder sees it; returned tells whether it is the  *)
(* object the call returned.                                               *)
Obj(rows, meta, returned) == [rows |-> rows, meta |-> meta, returned |-> returned]

NoObj == Obj(<<>>, NoMeta, FALSE)

None == <<>>

Some(v) == <<v>>

NaN == <<>>

IntNum(n) == [kind |-> "int", val |-> n]

NoNum == [kind |-> "none"]

FloatNum == [kind |-> "float"]

SetMax(S) == CHOOSE m \in S : \A e \in S : e <= m

SetMin(S) == CHOOSE m \in S : \A e \in S : m <= e

Isqrt(n) == CHOOSE r \in 0..n : r * r <= n /\ n < (r + 1) * (r + 1)

(* np.sqrt((x - x0) ** 2 + (y - y0) ** 2) *)
Euclid(x, y, x0, y0) == Isqrt((x - x0) * (x - x0) + (y - y0) * (y - y0))

(* np.linspace(start, stop, num) for an integer num >= 0 *)
linspace(start, stop, num) ==
  [i \in 1..num |->
     IF num = 1 THEN start
     ELSE start + ((i - 1) * (stop - start)) \div (num - 1)]

Range(s) == {s[i] : i \in 1..Len(s)}

(* A table of the vertices vs with the default index 0..n-1. *)
VertexTable(vs) ==
  [i \in 1..Len(vs) |-> [index |-> i - 1, x |-> vs[i][1], y |-> vs[i][2]]]

(* ------------------------ rel_dist and cum_dist ------------------------ *)

(* df.reset_index(drop=True): the rows stay in their order. *)
rows_as_given(tbl) ==
  [i \in 1..Len(tbl) |-> [index |-> i - 1, x |-> tbl[i].x, y |-> tbl[i].y]]

(* df[::-1].reset_index(drop=True) *)
reversed_rows(tbl) ==
  [i \in 1..Len(tbl) |->
     [index |-> i - 1, x |-> tbl[Len(tbl) + 1 - i].x, y |-> tbl[Len(tbl) + 1 - i].y]]

(* x_lag = x.shift(1), y_lag = y.shift(1), rel_dist = sqrt(...): the first *)
(* row has no previous row, so its lags and its rel_dist are NaN.          *)
lagged_dist(df1) ==
  [i \in 1..Len(df1) |->
     [index |-> df1[i].index, x |-> df1[i].x, y |-> df1[i].y,
      rel_dist |-> IF i = 1 THEN NaN
                   ELSE Some(Euclid(df1[i].x, df1[i].y, df1[i - 1].x, df1[i - 1].y))]]

(* df1.dropna(subset=["rel_dist"]) *)
dropna_rel_dist(df1) == SelectSeq(df1, LAMBDA r : r.rel_dist # NaN)

rel_dist(tbl, reverse) ==
  dropna_rel_dist(lagged_dist(IF reverse THEN reversed_rows(tbl) ELSE tbl))

RECURSIVE cumsum(_, _)
(* The running sum of the rel_dist column up to row i. *)
cumsum(df1, i) == IF i = 0 THEN 0 ELSE cumsum(df1, i - 1) + df1[i].rel_dist[1]

cum_dist(tbl, reverse) ==
  LET df1 == rel_dist(tbl, reverse)
  IN  [i \in 1..Len(df1) |->
         [index |-> df1[i].index, x |-> df1[i].x, y |-> df1[i].y,
          rel_dist |-> df1[i].rel_dist, dist |-> cumsum(df1, i)]]

(* ------------------------------ sorting -------------------------------- *)

RECURSIVE insert_by_dist(_, _)
(* r put into the sorted rows s after every row whose dist is <= r.dist. *)
insert_by_dist(s, r) ==
  IF s = <<>> THEN <<r>>
  ELSE IF s[Len(s)].dist <= r.dist THEN Append(s, r)
  ELSE Append(insert_by_dist(SubSeq(s, 1, Len(s) - 1), r), s[Len(s)])

RECURSIVE sort_values(_)
(* coordinates.sort_values(by=["dist"]): ascending, rows of equal dist in  *)
(* their original order.                                                   *)
sort_values(rows) ==
  IF rows = <<>> THEN <<>>
  ELSE insert_by_dist(sort_values(SubSeq(rows, 1, Len(rows) - 1)), rows[Len(rows)])

DistSet(rows) == {rows[i].dist : i \in 1..Len(rows)}

(* ---------------------------- create_profile --------------------------- *)

methods == {"points", "shapefile", "polyline"}

(* interpolate("cubic") needs at least 4 points. *)
MinCubic == 4

(* if num is None: num = 1000 *)
DefaultNum == 1000

Result(rows, exc, log) == [ret |-> rows, raised |-> exc, logged |-> log]

(* Mutant of points_coordinates: np.linspace(..., endpoint=False), which   *)
(* stops one step short of stop.                                           *)
points_coordinates_endpoint_false(start, stop, num) ==
  LET xs == [i \in 1..num |-> start[1] + ((i - 1) * (stop[1] - start[1])) \div num]
      ys == [i \in 1..num |-> start[2] + ((i - 1) * (stop[2] - start[2])) \div num]
  IN  [i \in 1..num |->
         [index |-> i - 1, x |-> xs[i], y |-> ys[i],
          dist |-> Euclid(xs[i], ys[i], xs[1], ys[1])]]

(* method == "points": np.linspace(start, stop, num) in both columns, then *)
(* dist from the first point.                                              *)
points_coordinates(start, stop, num) ==
  LET xs == linspace(start[1], stop[1], num)
      ys == linspace(start[2], stop[2], num)
  IN  [i \in 1..num |->
         [index |-> i - 1, x |-> xs[i], y |-> ys[i],
          dist |-> Euclid(xs[i], ys[i], xs[1], ys[1])]]

(* shp.geometry[0].coords[:] as a table with columns x and y *)
read_shapefile(shapefile) == VertexTable(shapefile)

(* Mutant of dist_resampled: the samples start at distance 0 instead of at *)
(* coords.dist.min().                                                      *)
dist_resampled_from_zero(coords, num) ==
  linspace(0, SetMax(DistSet(coords)), num)

(* np.linspace(coords.dist.min(), coords.dist.max(), num, dtype=float) *)
dist_resampled(coords, num) ==
  linspace(SetMin(DistSet(coords)), SetMax(DistSet(coords)), num)

(* The labels df.index.union(dist_resampled) adds to df.index. *)
inserted_dists(coords, num) == Range(dist_resampled(coords, num)) \ DistSet(coords)

RECURSIVE sorted_seq(_)
(* The elements of a set of numbers in ascending order. *)
sorted_seq(S) ==
  IF S = {} THEN <<>> ELSE <<SetMin(S)>> \o sorted_seq(S \ {SetMin(S)})

(* df.reindex(df.index.union(dist_resampled)).interpolate("cubic")         *)
(* .reset_index(): the rows of the input, which keep their x and y, and    *)
(* one row per inserted label d, which gets the spline's values iv[d], in  *)
(* ascending order of dist.  Column rel_dist, which the final column       *)
(* selection discards, is left out.                                        *)
reindex_interpolate(coords, num, iv) ==
  LET new == sorted_seq(inserted_dists(coords, num))
      rows == [i \in 1..Len(coords) |->
                 [index |-> 0, x |-> coords[i].x, y |-> coords[i].y,
                  dist |-> coords[i].dist]]
              \o [i \in 1..Len(new) |->
                    [index |-> 0, x |-> iv[new[i]][1], y |-> iv[new[i]][2],
                     dist |-> new[i]]]
      df1 == sort_values(rows)
  IN  [i \in 1..Len(df1) |-> [df1[i] EXCEPT !.index = i - 1]]

(* What the body of the try block does for a given num: the exception it   *)
(* raises, or "none".  np.linspace raises TypeError for a num that is not  *)
(* an integer and ValueError for a negative one.  When the union adds no   *)
(* label, reindex copies the table and interpolate has nothing to fill.    *)
(* When it adds one, reindex raises ValueError if the dist labels repeat   *)
(* (a zero-length segment), and the cubic spline raises ValueError if it   *)
(* has fewer than MinCubic points.                                         *)
resample_raises(coords, num) ==
  IF num.kind = "float" THEN "TypeError"
  ELSE IF num.val < 0 THEN "ValueError"
  ELSE IF inserted_dists(coords, num.val) = {} THEN "none"
  ELSE IF Cardinality(DistSet(coords)) < Len(coords) THEN "ValueError"
  ELSE IF Len(coords) < MinCubic THEN "ValueError"
  ELSE "none"

(* df2 = df1[df1.dist.isin(dist_resampled)] *)
isin_resampled(df1, coords, num) ==
  SelectSeq(df1, LAMBDA r : r.dist \in Range(dist_resampled(coords, num)))

(* Mutant of select_reset_index: df2[["x", "y", "dist"]] without the       *)
(* reset_index, so the rows keep the labels they had.                      *)
select_keep_index(df2) ==
  [i \in 1..Len(df2) |->
     [index |-> df2[i].index, x |-> df2[i].x, y |-> df2[i].y, dist |-> df2[i].dist]]

(* df2[["x", "y", "dist"]].reset_index(drop=True) *)
select_reset_index(df2) ==
  [i \in 1..Len(df2) |->
     [index |-> i - 1, x |-> df2[i].x, y |-> df2[i].y, dist |-> df2[i].dist]]

(* Mutant of caught: a handler that catches nothing. *)
caught_nothing == {}

(* except ValueError: the kinds of exception the handler catches. *)
caught == {"ValueError"}

(* Lines 111-142 for the vertex-path methods: sort, resample inside the    *)
(* try block, fall back to coords when the handler catches.                *)
vertex_path_profile(coordinates, num, iv) ==
  LET coords == sort_values(coordinates)
  IN  IF num.kind = "none" THEN Result(select_reset_index(coords), "none", FALSE)
      ELSE LET exc == resample_raises(coords, num)
           IN  IF exc = "none"
               THEN Result(select_reset_index(
                             isin_resampled(reindex_interpolate(coords, num.val, iv),
                                            coords, num.val)),
                           "none", FALSE)
               ELSE IF exc \in caught
               THEN Result(select_reset_index(coords), "none", TRUE)
               ELSE Result(<<>>, exc, FALSE)

(* Lines 76-91 and 111-142 for method "points". *)
(* np.linspace raises TypeError for a num that is not an integer and       *)
(* ValueError for a negative one; coordinates.x.iloc[0] raises IndexError  *)
(* on an empty table.  Nothing catches them here.                          *)
points_profile(start, stop, num) ==
  LET n == IF num.kind = "none" THEN IntNum(DefaultNum) ELSE num
  IN  IF n.kind = "float" THEN Result(<<>>, "TypeError", FALSE)
      ELSE IF n.val < 0 THEN Result(<<>>, "ValueError", FALSE)
      ELSE IF n.val = 0 THEN Result(<<>>, "IndexError", FALSE)
      ELSE Result(select_reset_index(
                    sort_values(points_coordinates(start, stop, n.val))),
                  "none", FALSE)

create_profile(a, iv) ==
  IF a.method \notin methods THEN Result(<<>>, "ValueError", FALSE)
  ELSE IF a.method = "points"
  THEN IF a.start = None \/ a.stop = None THEN Result(<<>>, "ValueError", FALSE)
       ELSE points_profile(a.start[1], a.stop[1], a.num)
  ELSE IF a.method = "shapefile"
  THEN IF a.shapefile = None THEN Result(<<>>, "ValueError", FALSE)
       ELSE vertex_path_profile(cum_dist(read_shapefile(a.shapefile[1]), a.reverse),
                                a.num, iv)
  ELSE IF a.polyline = None THEN Result(<<>>, "ValueError", FALSE)
       ELSE vertex_path_profile(cum_dist(a.polyline[1], a.reverse), a.num, iv)

(* The calls create_profile makes outside this module, in order: the      *)
(* checks of lines 73-81, 94-96 and 105-107 raise before any of them.      *)
create_profile_calls(a) ==
  IF a.method \notin methods THEN <<>>
  ELSE IF a.method = "points"
  THEN IF a.start = None \/ a.stop = None THEN <<>> ELSE <<"np.linspace">>
  ELSE IF a.method = "shapefile"
  THEN IF a.shapefile = None THEN <<>> ELSE <<"pyogrio.read_dataframe", "cum_dist">>
  ELSE IF a.polyline = None THEN <<>> ELSE <<"cum_dist">>

(* The message of the ValueError of lines 73-75, 79-81, 94-96 and 105-107: *)
(* the method it shows and the arguments it asks for ("a valid dataframe"  *)
(* is the polyline argument); <<>> when none of them is raised.            *)
create_profile_msg(a) ==
  IF a.method \notin methods
  THEN Some([method |-> a.method, asks |-> {"start", "stop"}])
  ELSE IF a.method = "points"
  THEN IF a.start = None \/ a.stop = None
       THEN Some([method |-> a.method, asks |-> {"start", "stop"}])
       ELSE None
  ELSE IF a.method = "shapefile"
  THEN IF a.shapefile = None
       THEN Some([method |-> a.method, asks |-> {"shapefile"}])
       ELSE None
  ELSE IF a.polyline = None
       THEN Some([method |-> a.method, asks |-> {"polyline"}])
       ELSE None

(* -------------------------------- shorten ------------------------------ *)

(* Mutant of filter_dist: the bounds included (<= and >=). *)
filter_dist_inclusive(tbl, max_dist, min_dist) ==
  SelectSeq(tbl, LAMBDA r : r.dist <= max_dist /\ r.dist >= min_dist)

(* df[(df.dist < max_dist) & (df.dist > min_dist)].copy() *)
filter_dist(tbl, max_dist, min_dist) ==
  SelectSeq(tbl, LAMBDA r : r.dist < max_dist /\ r.dist > min_dist)

(* Mutant of dist_from_first: the old dist shifted so that the first row   *)
(* is at 0.                                                                *)
dist_minus_offset(shortened) ==
  [i \in 1..Len(shortened) |->
     [shortened[i] EXCEPT !.dist = shortened[i].dist - shortened[1].dist]]

(* shortened["dist"] = sqrt((x - x.iloc[0]) ** 2 + (y - y.iloc[0]) ** 2) *)
dist_from_first(shortened) ==
  [i \in 1..Len(shortened) |->
     [shortened[i] EXCEPT
        !.dist = Euclid(shortened[i].x, shortened[i].y, shortened[1].x, shortened[1].y)]]

(* An empty selection is returned as it is: dist is assigned without       *)
(* looking up the first row.                                               *)
shorten_returns_empty(tbl, max_dist, min_dist) ==
  LET mx == IF max_dist = None THEN SetMax(DistSet(tbl)) ELSE max_dist[1]
      mn == IF min_dist = None THEN SetMin(DistSet(tbl)) ELSE min_dist[1]
      shortened == filter_dist(tbl, mx, mn)
  IN  IF shortened = <<>> THEN Result(<<>>, "none", FALSE)
      ELSE Result(dist_from_first(shortened), "none", FALSE)

(* The bounds default to the table's own df.dist.max() and df.dist.min();  *)
(* on an empty table both are NaN and no row passes the filter.  x.iloc[0] *)
(* raises IndexError when the filter keeps no row.                         *)
shorten(tbl, max_dist, min_dist) ==
  IF tbl = <<>> THEN Result(<<>>, "IndexError", FALSE)
  ELSE LET mx == IF max_dist = None THEN SetMax(DistSet(tbl)) ELSE max_dist[1]
           mn == IF min_dist = None THEN SetMin(DistSet(tbl)) ELSE min_dist[1]
           shortened == filter_dist(tbl, mx, mn)
       IN  IF shortened = <<>> THEN Result(<<>>, "IndexError", FALSE)
           ELSE Result(dist_from_first(shortened), "none", FALSE)

(* The filter drops the rows of the table passed (inplace=True) and the    *)
(* dist assignment is to that table.                                       *)
shorten_in_place(tbl, max_dist, min_dist) == shorten(tbl, max_dist, min_dist).ret

(* The rows of the table passed to shorten once it has returned or raised: *)
(* the filter and .copy() make a new table, and the dist assignment is to  *)
(* that one.                                                               *)
shorten_leaves(tbl, max_dist, min_dist) == tbl

(* ------------------------------ sample_grids --------------------------- *)

(* The value pygmt.grdtrack reads from a grid at (x, y): a number, or NaN  *)
(* where the grid has no data.  "bed" has no data east of x = 4.           *)
grid_value(grid, x, y) ==
  IF grid = "surface" THEN Some(x + y)
  ELSE IF x > 4 THEN NaN
  ELSE Some(y - x)

(* pygmt.grdtrack(points=..., grid=..., no_skip=True): one value per point *)
grdtrack(points, grid) ==
  [i \in 1..Len(points) |-> grid_value(grid, points[i].x, points[i].y)]

SeqWithout(cols, c) == SelectSeq(cols, LAMBDA k : k # c)

(* The rows without column c. *)
drop_rows(rows, c) ==
  [i \in 1..Len(rows) |-> [k \in (DOMAIN rows[i]) \ {c} |-> rows[i][k]]]

(* The rows with column c set to vals. *)
assign_rows(rows, c, vals) ==
  [i \in 1..Len(rows) |->
     [k \in (DOMAIN rows[i]) \cup {c} |-> IF k = c THEN vals[i] ELSE rows[i][k]]]

(* df.drop(columns=c) *)
drop_columns(t, c) ==
  [rows |-> drop_rows(t.rows, c), meta |-> Meta(SeqWithout(t.meta.cols, c), t.meta.name)]

(* df.insert(0, c, vals): the new column comes first. *)
assign_column_first(t, c, vals) ==
  [rows |-> assign_rows(t.rows, c, vals),
   meta |-> Meta(IF c \in Range(t.meta.cols) THEN t.meta.cols
                 ELSE <<c>> \o t.meta.cols, t.meta.name)]

(* df[c] = vals: in place of the column if there is one, else at the end. *)
assign_column(t, c, vals) ==
  [rows |-> assign_rows(t.rows, c, vals),
   meta |-> Meta(IF c \in Range(t.meta.cols) THEN t.meta.cols
                 ELSE Append(t.meta.cols, c), t.meta.name)]

(* df1 = df[["x", "y", "dist"]] when the column exists: the other sampled  *)
(* columns are lost with it.                                               *)
drop_sampled_and_others(t, sampled_name) ==
  IF sampled_name \in Range(t.meta.cols)
  THEN [rows |-> [i \in 1..Len(t.rows) |->
                   [k \in {"index", "x", "y", "dist"} |-> t.rows[i][k]]],
        meta |-> Meta(XYD.cols, t.meta.name)]
  ELSE t

(* df1 = df.copy() whether or not the column exists. *)
keep_sampled(t, sampled_name) == t

(* try: df1 = df.drop(columns=sampled_name); except KeyError: df1 = df.copy() *)
drop_sampled(t, sampled_name) ==
  IF sampled_name \in Range(t.meta.cols) THEN drop_columns(t, sampled_name) ELSE t

(* The name reset_index gives the column that receives the index labels. *)
reset_index_column(meta) ==
  IF meta.name # None THEN meta.name[1]
  ELSE IF "index" \in Range(meta.cols) THEN "level_0"
  ELSE "index"

(* pd.testing.assert_frame_equal(left, right): same columns in the same    *)
(* order, same index labels and index name, same values.                   *)
frame_equal(left, right) == left.meta = right.meta /\ left.rows = right.rows

SampleResult(t, exc, calls) ==
  [ret |-> t.rows, meta |-> t.meta, raised |-> exc, calls |-> calls]

NoTable == [rows |-> <<>>, meta |-> NoMeta]

(* sample_grids(df, grid, sampled_name) on the table t.  The row labels    *)
(* travel through reset_index in a column of their own and set_index       *)
(* ("index") puts them back, so the rows keep their labels whenever that   *)
(* column is called "index".                                               *)
sample_grids(t, grid, sampled_name) ==
  LET df1 == drop_sampled(t, sampled_name)
      rc == reset_index_column(df1.meta)
      cols3 == <<rc>> \o df1.meta.cols
  IN  IF rc \in Range(df1.meta.cols)
      THEN SampleResult(NoTable, "ValueError", <<>>)
      ELSE IF "x" \notin Range(cols3) \/ "y" \notin Range(cols3)
      THEN SampleResult(NoTable, "KeyError", <<>>)
      ELSE IF "index" \notin Range(cols3)
      THEN SampleResult(NoTable, "KeyError", <<"pygmt.grdtrack">>)
      ELSE IF rc # "index"
      THEN SampleResult(NoTable, "AssertionError", <<"pygmt.grdtrack">>)
      ELSE LET df3 == assign_column(df1, sampled_name, grdtrack(df1.rows, grid))
               df4 == [rows |-> df3.rows, meta |-> Meta(df3.meta.cols, df1.meta.name)]
           IN  IF frame_equal(drop_columns(df4, sampled_name), df1)
               THEN SampleResult(df4, "none", <<"pygmt.grdtrack">>)
               ELSE SampleResult(NoTable, "AssertionError", <<"pygmt.grdtrack">>)

(* The rows of the table passed to sample_grids once it has returned or    *)
(* raised: df.drop and df.copy make new tables, and the column is assigned *)
(* to the table reset_index made.                                          *)
sample_grids_leaves(t, grid, sampled_name) == t.rows

(* ------------------------------- fill_nans ----------------------------- *)

(* df[j].fillna(0) *)
fillna_zero(rows, j, prev) ==
  [i \in 1..Len(rows) |-> IF rows[i][j] = NaN THEN Some(0) ELSE rows[i][j]]

(* df[j].fillna(df[prev]): the value of column prev where column j is NaN. *)
fillna(rows, j, prev) ==
  [i \in 1..Len(rows) |-> IF rows[i][j] = NaN THEN rows[i][prev] ELSE rows[i][j]]

RECURSIVE fill_loop_from_input(_, _, _)
(* Every column is filled from the column before it as it was passed in:   *)
(* the fills are computed from df before any of them is assigned.          *)
fill_loop_from_input(rows, cols, i) ==
  IF i <= 1 THEN rows
  ELSE assign_rows(fill_loop_from_input(rows, cols, i - 1), cols[i],
                   fillna(rows, cols[i], cols[i - 1]))

RECURSIVE fill_loop(_, _, _)
(* The table after the loop of lines 225-229 has handled cols[1..i]: the   *)
(* first column is passed over, every later one is filled from the one     *)
(* before it as the loop left it.                                          *)
fill_loop(rows, cols, i) ==
  IF i <= 1 THEN rows
  ELSE LET before == fill_loop(rows, cols, i - 1)
       IN  assign_rows(before, cols[i], fillna(before, cols[i], cols[i - 1]))

(* cols = df.columns[3:].values *)
layer_columns(meta) == SubSeq(meta.cols, 4, Len(meta.cols))

(* fill_nans(df): the assignments are to df itself, and df is returned. *)
fill_nans(t) ==
  LET filled == fill_loop(t.rows, layer_columns(t.meta), Len(layer_columns(t.meta)))
  IN  [ret |-> filled, meta |-> t.meta, arg |-> filled, returned |-> TRUE]

(* ------------------------- plot_profile, plot_data --------------------- *)

Table(rows, meta) == [rows |-> rows, meta |-> meta]

RECURSIVE sample_all(_, _)
(* for k, v in dict.items(): df = sample_grids(df, v["grid"], sampled_name=k) *)
sample_all(t, dict) ==
  IF dict = <<>> THEN SampleResult(t, "none", <<>>)
  ELSE LET r == sample_grids(t, dict[1].grid, dict[1].name)
       IN  IF r.raised # "none" THEN r
           ELSE LET rest == sample_all(Table(r.ret, r.meta), Tail(dict))
                IN  [rest EXCEPT !.calls = r.calls \o @]

(* bool(v) is False for a keyword that is absent, None or 0. *)
falsy(v) == v = None \/ v = Some(0)

(* (kwargs.get("max_dist") or kwargs.get("min_dist")) is None *)
clip_unbounded(max_dist, min_dist) ==
  (IF falsy(max_dist) THEN min_dist ELSE max_dist) = None

ClipMessage == Some([clip |-> TRUE, asks |-> {"max_dist", "min_dist"}])

PlotResult(points, layers, dat, exc, m, calls) ==
  [points |-> points, layers |-> layers, data |-> dat, raised |-> exc,
   msg |-> m, calls |-> calls]

(* if kwargs.get("fillnans", True) is True: df_layers = fill_nans(df_layers) *)
fill_layers(sl, kw) ==
  IF kw.fillnans THEN Table(fill_nans(Table(sl.ret, sl.meta)).ret, sl.meta)
  ELSE Table(sl.ret, sl.meta)

(* df_data = points.copy(), sampled on every grid of data_dict if there is *)
(* one.                                                                    *)
sample_data(points, data_dict) ==
  IF data_dict = None THEN SampleResult(points, "none", <<>>)
  ELSE sample_all(points, data_dict[1])

(* plot_profile(method, layers_dict, data_dict, **kw) up to the creation   *)
(* of the figure, for a layers_dict that is given and a data_dict that is  *)
(* None or given.  p is what create_profile returned, sl and sd what the   *)
(* two sampling loops returned, df_layers the layers after fill_nans,      *)
(* short_layers and short_data what shorten makes of the two tables.       *)
plot_profile(a, p, sl, df_layers, sd, short_layers, short_data, data_dict, kw) ==
  LET c0 == create_profile_calls(a)
      c1 == c0 \o sl.calls
      c2 == c1 \o sd.calls
      points == Table(p.ret, XYD)
      df_data == Table(sd.ret, sd.meta)
  IN  IF p.raised # "none"
      THEN PlotResult(NoTable, NoTable, NoTable, p.raised, create_profile_msg(a), c0)
      ELSE IF sl.raised # "none"
      THEN PlotResult(points, NoTable, NoTable, sl.raised, None, c1)
      ELSE IF sd.raised # "none"
      THEN PlotResult(points, df_layers, NoTable, sd.raised, None, c2)
      ELSE IF kw.clip # Some(TRUE)
      THEN PlotResult(points, df_layers, df_data, "none", None, Append(c2, "pygmt.Figure"))
      ELSE IF clip_unbounded(kw.max_dist, kw.min_dist)
      THEN PlotResult(points, df_layers, df_data, "ValueError", ClipMessage, c2)
      ELSE IF short_layers.raised # "none"
      THEN PlotResult(points, df_layers, df_data, short_layers.raised, None, c2)
      ELSE IF data_dict # None /\ short_data.raised # "none"
      THEN PlotResult(points, df_layers, df_data, short_data.raised, None, c2)
      ELSE PlotResult(points, Table(short_layers.ret, df_layers.meta),
                      IF data_dict # None THEN Table(short_data.ret, df_data.meta)
                      ELSE df_data,
                      "none", None, Append(c2, "pygmt.Figure"))

(* plot_data(method, data_dict, **kw) up to the creation of the figure,    *)
(* for a data_dict that is None or given.  The call of shorten (lines      *)
(* 1108-1112) comes after the if clip block, not inside it.                *)
plot_data(a, p, sd, short_data, kw) ==
  LET c0 == create_profile_calls(a)
      c1 == c0 \o sd.calls
      points == Table(p.ret, XYD)
      df_data == Table(sd.ret, sd.meta)
  IN  IF p.raised # "none"
      THEN PlotResult(NoTable, NoTable, NoTable, p.raised, create_profile_msg(a), c0)
      ELSE IF sd.raised # "none"
      THEN PlotResult(points, NoTable, NoTable, sd.raised, None, c1)
      ELSE IF kw.clip = Some(TRUE) /\ clip_unbounded(kw.max_dist, kw.min_dist)
      THEN PlotResult(points, NoTable, df_data, "ValueError", ClipMessage, c1)
      ELSE IF short_data.raised # "none"
      THEN PlotResult(points, NoTable, df_data, short_data.raised, None, c1)
      ELSE PlotResult(points, NoTable, Table(short_data.ret, df_data.meta), "none",
                      None, Append(c1, "pygmt.Figure"))

(* --------------------------- square_subplots --------------------------- *)

special_cases ==
  [n \in 1..9 |->
     CASE n = 1 -> <<1, 1>>
       [] n = 2 -> <<1, 2>>
       [] n \in {3, 4} -> <<2, 2>>
       [] n \in {5, 6} -> <<2, 3>>
       [] OTHER -> <<3, 3>>]

(* int(np.ceil(np.sqrt(n))) *)
ceil_sqrt(n) == CHOOSE r \in 0..n : r * r >= n /\ (r = 0 \/ (r - 1) * (r - 1) < n)

(* The (x, y) chosen by lines 1461-1477. *)
grid_shape(n) ==
  LET n_sqrt == ceil_sqrt(n)
  IN  IF n_sqrt * n_sqrt = n THEN <<n_sqrt, n_sqrt>>
      ELSE IF n <= n_sqrt * (n_sqrt - 1) THEN <<n_sqrt, n_sqrt - 1>>
      ELSE IF n_sqrt % 2 = 0 /\ n % 2 = 1 THEN <<n_sqrt + 1, n_sqrt - 1>>
      ELSE <<n_sqrt, n_sqrt>>

(* The tuple square_subplots returns: for n == x * y it is                 *)
(* tuple(x for i in range(y)), one entry per row.                          *)
square_subplots(n) ==
  IF n \in DOMAIN special_cases THEN special_cases[n]
  ELSE LET x == grid_shape(n)[1]
           y == grid_shape(n)[2]
       IN  IF n = x * y THEN [i \in 1..y |-> x]
           ELSE IF x % 2 # y % 2 /\ x % 2 = 1 THEN <<y, x>>
           ELSE <<x, y>>

(* ------------------------------- the calls ----------------------------- *)

(* Vertex lists of 2..MaxVerts vertices that start at the origin; a vertex *)
(* may repeat.                                                             *)
Polylines ==
  {vs \in UNION {[1..n -> Verts] : n \in 2..MaxVerts} : vs[1] = <<0, 0>>}

Nums == {IntNum(n) : n \in (-1)..MaxNum} \cup {FloatNum}

Opt(S) == {None} \cup {Some(v) : v \in S}

(* The global `lines` before any draw_lines call: the name is not defined. *)
Unbound == 0

Init ==
  /\ op = "init"
  /\ args = [method |-> "none"]
  /\ df = <<>>
  /\ ret = <<>>
  /\ raised = "none"
  /\ logged = FALSE
  /\ dfm = NoMeta
  /\ retm = NoMeta
  /\ arg = NoObj
  /\ effects = <<>>
  /\ msg = <<>>
  /\ sampled = <<>>
  /\ data = NoObj
  /\ lines = Unbound
  /\ heap = <<>>
  /\ maps = <<>>

(* create_profile("points", start=..., stop=..., num=...), for endpoints   *)
(* and counts whose samples fall on the lattice.                           *)
CreatePoints ==
  \E start \in Ends, stop \in Ends, num \in Nums :
    /\ op = "init"
    /\ num.kind = "int" /\ num.val >= 2 =>
         /\ (stop[1] - start[1]) % (num.val - 1) = 0
         /\ (stop[2] - start[2]) % (num.val - 1) = 0
    /\ LET a == [method |-> "points", start |-> Some(start), stop |-> Some(stop),
                 num |-> num, shapefile |-> None, polyline |-> None,
                 reverse |-> FALSE]
           r == create_profile(a, <<>>)
       IN  /\ op' = "create_profile"
           /\ args' = a
           /\ df' = <<>>
           /\ ret' = r.ret
           /\ raised' = r.raised
           /\ logged' = r.logged
           /\ dfm' = NoMeta
           /\ retm' = IF r.raised = "none" THEN XYD ELSE NoMeta
           /\ arg' = NoObj
           /\ effects' = create_profile_calls(a)
           /\ msg' = create_profile_msg(a)
           /\ sampled' = <<>>
           /\ data' = NoObj
           /\ UNCHANGED drawn

(* The domain of the spline's values for a call: the inserted distances of *)
(* a resampling that goes through.                                         *)
SplineDomain(vs, reverse, num) ==
  LET coords == sort_values(cum_dist(VertexTable(vs), reverse))
  IN  IF num.kind = "int" /\ resample_raises(coords, num) = "none"
      THEN inserted_dists(coords, num.val)
      ELSE {}

(* create_profile("shapefile" | "polyline", ..., num=None | num, reverse=) *)
CreateVertexPath ==
  \E method \in {"shapefile", "polyline"}, vs \in Polylines,
     num \in Nums \cup {NoNum}, reverse \in BOOLEAN :
    \E iv \in [SplineDomain(vs, reverse, num) -> InterpVals] :
      op = "init" /\
      LET a == [method |-> method, start |-> None, stop |-> None, num |-> num,
                shapefile |-> IF method = "shapefile" THEN Some(vs) ELSE None,
                polyline |-> IF method = "polyline" THEN Some(VertexTable(vs))
                             ELSE None,
                reverse |-> reverse, spline |-> iv]
          r == create_profile(a, iv)
      IN  /\ op' = "create_profile"
          /\ args' = a
          /\ df' = VertexTable(vs)
          /\ ret' = r.ret
          /\ raised' = r.raised
          /\ logged' = r.logged
          /\ dfm' = Meta(<<"x", "y">>, None)
          /\ retm' = IF r.raised = "none" THEN XYD ELSE NoMeta
          /\ arg' = IF method = "polyline"
                    THEN Obj(VertexTable(vs), Meta(<<"x", "y">>, None), FALSE)
                    ELSE NoObj
          /\ effects' = create_profile_calls(a)
          /\ msg' = create_profile_msg(a)
          /\ sampled' = <<>>
          /\ data' = NoObj
          /\ UNCHANGED drawn

(* shorten(df, max_dist=..., min_dist=...) on the table the previous call  *)
(* returned.                                                               *)
Shorten ==
  /\ op \in {"create_profile", "shorten", "sample_grids", "fill_nans"}
  /\ raised = "none"
  /\ \E max_dist \in Opt(Bounds), min_dist \in Opt(Bounds) :
       LET r == shorten(ret, max_dist, min_dist)
       IN  /\ op' = "shorten"
           /\ args' = [max_dist |-> max_dist, min_dist |-> min_dist]
           /\ df' = ret
           /\ ret' = r.ret
           /\ raised' = r.raised
           /\ logged' = FALSE
           /\ dfm' = retm
           /\ retm' = IF r.raised = "none" THEN retm ELSE NoMeta
           /\ arg' = Obj(shorten_leaves(ret, max_dist, min_dist), retm, FALSE)
           /\ effects' = <<>>
           /\ msg' = <<>>
           /\ UNCHANGED <<sampled, data, lines, heap, maps>>

(* The caller is done with the table (or with the exception): the next    *)
(* call starts from nothing, as no call leaves state behind.              *)
Discard ==
  /\ op # "init"
  /\ op' = "init"
  /\ args' = [method |-> "none"]
  /\ df' = <<>>
  /\ ret' = <<>>
  /\ raised' = "none"
  /\ logged' = FALSE
  /\ dfm' = NoMeta
  /\ retm' = NoMeta
  /\ arg' = NoObj
  /\ effects' = <<>>
  /\ msg' = <<>>
  /\ sampled' = <<>>
  /\ data' = NoObj
  /\ UNCHANGED drawn

(* The argument at fault in a create_profile call, if any: a method that   *)
(* is none of the three, or the arguments the method needs and lacks.      *)
Misconfigured(a) ==
  IF a.method \notin methods THEN {"method"}
  ELSE IF a.method = "points"
  THEN {n \in {"start", "stop"} : a[n] = None}
  ELSE IF a[a.method] = None THEN {a.method}
  ELSE {}

(* create_profile with an invalid method or without the arguments its      *)
(* method needs.                                                           *)
CreateMisconfigured ==
  \E method \in methods \cup {"line"}, start \in Opt({<<0, 0>>}),
     stop \in Opt({<<10, 0>>}), num \in {NoNum, IntNum(3)}, reverse \in BOOLEAN :
    LET a == [method |-> method, start |-> start, stop |-> stop, num |-> num,
              shapefile |-> None, polyline |-> None, reverse |-> reverse]
        r == create_profile(a, <<>>)
    IN  /\ op = "init"
        /\ Misconfigured(a) # {}
        /\ op' = "create_profile"
        /\ args' = a
        /\ df' = <<>>
        /\ ret' = r.ret
        /\ raised' = r.raised
        /\ logged' = r.logged
        /\ dfm' = NoMeta
        /\ retm' = IF r.raised = "none" THEN XYD ELSE NoMeta
        /\ arg' = NoObj
        /\ effects' = create_profile_calls(a)
        /\ msg' = create_profile_msg(a)
        /\ sampled' = <<>>
        /\ data' = NoObj
        /\ UNCHANGED drawn

(* square_subplots(n): ret holds the tuple returned. *)
SquareSubplots ==
  \E n \in 1..MaxPlots :
    /\ op = "init"
    /\ op' = "square_subplots"
    /\ args' = [n |-> n]
    /\ ret' = square_subplots(n)
    /\ UNCHANGED <<df, raised, logged, dfm, retm, arg, effects, msg, sampled, data,
                   lines, heap, maps>>

Next ==
  \/ CreatePoints
  \/ CreateVertexPath
  \/ CreateMisconfigured
  \/ Shorten
  \/ Discard
  \/ SquareSubplots

Spec == Init /\ [][Next]_vars

(* --------------------- profiles with sampled layers -------------------- *)

Grids == {"surface", "bed"}

LayerNames == {"a", "b", "c"}

(* The index name of the table handed to sample_grids: as the previous     *)
(* call left it, or set by the caller (df.index.name = "id").              *)
IndexNames == {None, Some("id")}

PointsCall(start, stop, num) ==
  [method |-> "points", start |-> Some(start), stop |-> Some(stop),
   num |-> IntNum(num), shapefile |-> None, polyline |-> None, reverse |-> FALSE]

(* The profiles that get sampled: two lines from the origin. *)
LayerCalls == {PointsCall(<<0, 0>>, <<10, 0>>, 3), PointsCall(<<0, 0>>, <<6, 8>>, 3)}

Chainable == {"create_profile", "shorten", "sample_grids", "fill_nans"}

(* create_profile for a profile that is to be sampled. *)
CreateForLayers ==
  \E a \in LayerCalls :
    LET r == create_profile(a, <<>>)
    IN  /\ op = "init"
        /\ op' = "create_profile"
        /\ args' = a
        /\ df' = <<>>
        /\ ret' = r.ret
        /\ raised' = r.raised
        /\ logged' = r.logged
        /\ dfm' = NoMeta
        /\ retm' = IF r.raised = "none" THEN XYD ELSE NoMeta
        /\ arg' = NoObj
        /\ effects' = create_profile_calls(a)
        /\ msg' = create_profile_msg(a)
        /\ sampled' = <<>>
        /\ data' = NoObj
        /\ UNCHANGED drawn

(* sample_grids(df, grid, sampled_name=name) on the table the previous     *)
(* call returned.                                                          *)
SampleGrids ==
  /\ op \in Chainable
  /\ raised = "none"
  /\ Len(sampled) < MaxSamples
  /\ \E grid \in Grids, name \in LayerNames, iname \in IndexNames :
       LET t == [rows |-> ret, meta |-> Meta(retm.cols, iname)]
           r == sample_grids(t, grid, name)
       IN  /\ op' = "sample_grids"
           /\ args' = [grid |-> grid, sampled_name |-> name]
           /\ df' = ret
           /\ ret' = r.ret
           /\ raised' = r.raised
           /\ logged' = FALSE
           /\ dfm' = t.meta
           /\ retm' = r.meta
           /\ arg' = Obj(sample_grids_leaves(t, grid, name), t.meta, FALSE)
           /\ effects' = r.calls
           /\ msg' = <<>>
           /\ sampled' = IF r.raised = "none" THEN Append(sampled, name) ELSE sampled
           /\ UNCHANGED <<data, lines, heap, maps>>

(* fill_nans(df) on the table the previous call returned. *)
FillNans ==
  /\ op \in Chainable
  /\ raised = "none"
  /\ LET r == fill_nans([rows |-> ret, meta |-> retm])
     IN  /\ op' = "fill_nans"
         /\ args' = [cols |-> layer_columns(retm)]
         /\ df' = ret
         /\ ret' = r.ret
         /\ raised' = "none"
         /\ logged' = FALSE
         /\ dfm' = retm
         /\ retm' = r.meta
         /\ arg' = Obj(r.arg, r.meta, r.returned)
         /\ effects' = <<>>
         /\ msg' = <<>>
         /\ UNCHANGED <<sampled, data, lines, heap, maps>>

Layer(name, grid) == [name |-> name, grid |-> grid]

(* layers_dict and data_dict: names and grids, in the order of the dict. *)
LayerDicts == {<<Layer("a", "surface")>>, <<Layer("a", "surface"), Layer("b", "bed")>>}

DataDicts == Opt({<<Layer("c", "surface")>>})

(* The keywords clip, max_dist, min_dist and fillnans; clip absent is None *)
(* and fillnans absent is TRUE.                                            *)
Keywords ==
  [clip : Opt(BOOLEAN), max_dist : Opt(Bounds), min_dist : Opt(Bounds),
   fillnans : BOOLEAN]

(* plot_profile(method, layers_dict=..., data_dict=..., **kw): ret is      *)
(* df_layers, data is df_data, df is the profile create_profile made.      *)
PlotProfile ==
  \E a \in LayerCalls, layers_dict \in LayerDicts, data_dict \in DataDicts,
     kw \in Keywords :
    \E p \in {create_profile(a, <<>>)} :
    \E sl \in {sample_all(Table(p.ret, XYD), layers_dict)},
       sd \in {sample_data(Table(p.ret, XYD), data_dict)} :
    \E df_layers \in {fill_layers(sl, kw)} :
    \E short_layers \in {shorten(df_layers.rows, kw.max_dist, kw.min_dist)},
       short_data \in {shorten(sd.ret, kw.max_dist, kw.min_dist)} :
    LET r == plot_profile(a, p, sl, df_layers, sd, short_layers, short_data,
                          data_dict, kw)
    IN  /\ op = "init"
        /\ op' = "plot_profile"
        /\ args' = [call |-> a, layers_dict |-> layers_dict, data_dict |-> data_dict,
                    kw |-> kw]
        /\ df' = r.points.rows
        /\ dfm' = r.points.meta
        /\ ret' = r.layers.rows
        /\ retm' = r.layers.meta
        /\ data' = Obj(r.data.rows, r.data.meta, r.raised = "none")
        /\ UNCHANGED drawn
        /\ raised' = r.raised
        /\ logged' = FALSE
        /\ arg' = NoObj
        /\ effects' = r.calls
        /\ msg' = r.msg
        /\ sampled' = <<>>

(* plot_data(method, data_dict=..., **kw): data is df_data, df is the      *)
(* profile create_profile made.                                            *)
PlotData ==
  \E a \in LayerCalls, data_dict \in DataDicts, kw \in Keywords :
    \E p \in {create_profile(a, <<>>)} :
    \E sd \in {sample_data(Table(p.ret, XYD), data_dict)} :
    \E short_data \in {shorten(sd.ret, kw.max_dist, kw.min_dist)} :
    LET r == plot_data(a, p, sd, short_data, kw)
    IN  /\ op = "init"
        /\ kw.fillnans
        /\ op' = "plot_data"
        /\ args' = [call |-> a, data_dict |-> data_dict, kw |-> kw]
        /\ df' = r.points.rows
        /\ dfm' = r.points.meta
        /\ ret' = <<>>
        /\ retm' = NoMeta
        /\ data' = Obj(r.data.rows, r.data.meta, r.raised = "none")
        /\ UNCHANGED drawn
        /\ raised' = r.raised
        /\ logged' = FALSE
        /\ arg' = NoObj
        /\ effects' = r.calls
        /\ msg' = r.msg
        /\ sampled' = <<>>

NextLayers ==
  \/ CreateForLayers
  \/ SampleGrids
  \/ FillNans
  \/ Shorten
  \/ Discard
  \/ PlotProfile
  \/ PlotData

SpecLayers == Init /\ [][NextLayers]_vars

(* ------------------------- points_inside_region ------------------------ *)

(* verde.check_region: west <= east and south <= north, or ValueError. *)
valid_region(region) == region[1] <= region[2] /\ region[3] <= region[4]

(* The region without its borders. *)
inside_open(x, y, region) ==
  /\ x > region[1] /\ x < region[2]
  /\ y > region[3] /\ y < region[4]

(* verde.inside(coordinates, region) for one point: the borders belong to  *)
(* the region.                                                             *)
inside(x, y, region) ==
  /\ x >= region[1] /\ x <= region[2]
  /\ y >= region[3] /\ y <= region[4]

(* points_inside_region(df, region, reverse=reverse), names = ("x", "y"):  *)
(* the column inside_tmp is added to a copy, the rows are selected by it   *)
(* and it is dropped from the selection.                                   *)
points_inside_region(t, region, reverse) ==
  IF ~valid_region(region) THEN SampleResult(NoTable, "ValueError", <<"vd.inside">>)
  ELSE LET df1 == assign_column(t, "inside_tmp",
                                [i \in 1..Len(t.rows) |->
                                   inside(t.rows[i].x, t.rows[i].y, region)])
           df_result == Table(SelectSeq(df1.rows, LAMBDA r : r.inside_tmp = ~reverse),
                              df1.meta)
       IN  SampleResult(drop_columns(df_result, "inside_tmp"), "none", <<"vd.inside">>)

(* The rows of the table passed to points_inside_region afterwards: the    *)
(* column is added to df.copy().                                           *)
points_inside_region_leaves(t, region, reverse) == t.rows

(* Tables of points and regions (west, east, south, north), one of them    *)
(* with west > east.                                                       *)
RegionPoints == {<<0, 0>>, <<1, 2>>, <<3, 1>>}

PointTables == UNION {[1..n -> RegionPoints] : n \in 1..MaxRows}

Regions ==
  {<<0, 1, 0, 2>>, <<1, 3, 1, 2>>, <<0, 3, 0, 3>>, <<2, 2, 0, 0>>, <<3, 0, 0, 1>>}

(* points_inside_region(df, region, reverse=reverse) *)
PointsInsideRegion ==
  \E vs \in PointTables, region \in Regions, reverse \in BOOLEAN :
    LET t == Table(VertexTable(vs), Meta(<<"x", "y">>, None))
        r == points_inside_region(t, region, reverse)
    IN  /\ op = "init"
        /\ op' = "points_inside_region"
        /\ args' = [region |-> region, reverse |-> reverse]
        /\ df' = t.rows
        /\ dfm' = t.meta
        /\ ret' = r.ret
        /\ retm' = r.meta
        /\ raised' = r.raised
        /\ logged' = FALSE
        /\ arg' = Obj(points_inside_region_leaves(t, region, reverse), t.meta, FALSE)
        /\ effects' = r.calls
        /\ msg' = <<>>
        /\ sampled' = <<>>
        /\ data' = NoObj
        /\ UNCHANGED drawn

NextRegion ==
  \/ PointsInsideRegion
  \/ Discard

SpecRegion == Init /\ [][NextRegion]_vars

(* ------------------------------ draw_lines ----------------------------- *)

(* The actions a DrawControl reports and the polylines drawn: the          *)
(* coordinates of geo_json["geometry"], one (lon, lat) pair per vertex.    *)
DrawActions == {"created", "edited", "deleted"}

Geometries == {<<<<0, 0>>, <<1, 1>>>>, <<<<2, 2>>, <<3, 3>>, <<4, 4>>>>}

(* shapes = [list(coords) for coords in geo_json["geometry"]["coordinates"]] *)
shapes_of(coordinates) == [i \in 1..Len(coordinates) |-> coordinates[i]]

(* clear_m(): global lines; lines = [] binds the global to a new list. *)
clear_m(h) == [heap |-> Append(h, <<>>), lines |-> Len(h) + 1]

(* The list handle_line_draw appends to: whatever the global `lines` is    *)
(* bound to when the event arrives.                                        *)
global_list(m) == lines

(* draw_lines(): the map is made, clear_m() runs before the control is     *)
(* made and again before display(m), and the global list is returned.      *)
DrawLines ==
  /\ Len(maps) < MaxMaps
  /\ LET first == clear_m(heap)
         second == clear_m(first.heap)
     IN  /\ heap' = second.heap
         /\ lines' = second.lines
         /\ maps' = Append(maps, [returned |-> second.lines, delivered |-> <<>>])
  /\ UNCHANGED <<op, args, df, ret, raised, logged, dfm, retm, arg, effects, msg,
                 sampled, data>>

RECURSIVE Delivered(_)
(* The number of events delivered to the handlers of the first n maps. *)
Delivered(n) == IF n = 0 THEN 0 ELSE Delivered(n - 1) + Len(maps[n].delivered)

(* handle_line_draw(self, action, geo_json), called by the control of map  *)
(* m when the user has drawn, edited or deleted a line on it.              *)
HandleLineDraw ==
  \E m \in 1..Len(maps), action \in DrawActions, coordinates \in Geometries :
    /\ Delivered(Len(maps)) < MaxEvents
    /\ LET shapes == shapes_of(coordinates)
           target == global_list(m)
       IN  /\ heap' = IF action = "created"
                      THEN [heap EXCEPT ![target] = Append(@, shapes)]
                      ELSE heap
           /\ maps' = [maps EXCEPT ![m].delivered =
                         Append(@, [action |-> action, shapes |-> shapes])]
    /\ UNCHANGED <<op, args, df, ret, raised, logged, dfm, retm, arg, effects, msg,
                   sampled, data, lines>>

NextDraw ==
  \/ DrawLines
  \/ HandleLineDraw

SpecDraw == Init /\ [][NextDraw]_vars

(* ------------------------------- claims -------------------------------- *)

(* A call with the arguments its method needs, by method. *)
IsVertexCall ==
  /\ op = "create_profile" /\ args.method \in {"shapefile", "polyline"}
  /\ Misconfigured(args) = {}

IsPointsCall ==
  op = "create_profile" /\ args.method = "points" /\ Misconfigured(args) = {}

(* The table the same vertex-path call returns with num omitted. *)
Unresampled == create_profile([args EXCEPT !.num = NoNum], <<>>).ret

(* The dist a row of the table handed to shorten had, by its index label. *)
OldDist(label) == (CHOOSE r \in Range(df) : r.index = label).dist

(* C1: a vertex-path call without num (and without reverse) returns one    *)
(* row per input vertex, in input order, with dist[0] = 0 and              *)
(* dist[i] = dist[i-1] + euclidean(v[i-1], v[i]).                          *)
C1_OneRowPerVertex ==
  (IsVertexCall /\ args.num.kind = "none" /\ ~args.reverse) =>
    /\ raised = "none"
    /\ Len(ret) = Len(df)
    /\ \A i \in 1..Len(ret) : ret[i].x = df[i].x /\ ret[i].y = df[i].y
    /\ ret[1].dist = 0
    /\ \A i \in 2..Len(ret) :
         ret[i].dist = ret[i - 1].dist + Euclid(df[i].x, df[i].y, df[i - 1].x, df[i - 1].y)

LinearlySpaced(n) ==
  /\ ret[1].x = args.start[1][1] /\ ret[1].y = args.start[1][2]
  /\ \A i \in 1..n :
       /\ (n - 1) * (ret[i].x - args.start[1][1]) = (i - 1) * (args.stop[1][1] - args.start[1][1])
       /\ (n - 1) * (ret[i].y - args.start[1][2]) = (i - 1) * (args.stop[1][2] - args.start[1][2])

DistFromRowZero(n) ==
  /\ ret[1].dist = 0
  /\ \A i \in 1..n : ret[i].dist = Euclid(ret[i].x, ret[i].y, ret[1].x, ret[1].y)

(* C2 as stated: a "points" call with num = N >= 1 returns N rows linearly *)
(* spaced from start to stop, dist measured from row 0, and dist strictly  *)
(* increasing.                                                             *)
C2_PointsStrictlyIncreasing ==
  (IsPointsCall /\ args.num.kind = "int" /\ args.num.val >= 1) =>
    /\ raised = "none"
    /\ Len(ret) = args.num.val
    /\ LinearlySpaced(args.num.val)
    /\ DistFromRowZero(args.num.val)
    /\ \A i \in 2..Len(ret) : ret[i - 1].dist < ret[i].dist

(* C2 amended: a "points" call with num = N >= 1 returns N rows linearly   *)
(* spaced from start to stop (first row = start, last row = stop for       *)
(* N >= 2), dist measured from row 0; dist is strictly increasing when     *)
(* start # stop and 0 in every row when start = stop.                      *)
C2_PointsProfile ==
  (IsPointsCall /\ args.num.kind = "int" /\ args.num.val >= 1) =>
    /\ raised = "none"
    /\ Len(ret) = args.num.val
    /\ LinearlySpaced(args.num.val)
    /\ DistFromRowZero(args.num.val)
    /\ args.start # args.stop => \A i \in 2..Len(ret) : ret[i - 1].dist < ret[i].dist
    /\ args.start = args.stop => \A i \in 1..Len(ret) : ret[i].dist = 0

C2_Witness ==
  /\ IsPointsCall
  /\ args.start = Some(<<0, 0>>) /\ args.stop = Some(<<10, 0>>) /\ args.num = IntNum(3)
  /\ ret = << [index |-> 0, x |-> 0, y |-> 0, dist |-> 0],
              [index |-> 1, x |-> 5, y |-> 0, dist |-> 5],
              [index |-> 2, x |-> 10, y |-> 0, dist |-> 10] >>

(* C3: a vertex-path call with num = M (M >= 2) on at least 4 vertices     *)
(* returns exactly M rows whose smallest and largest dist are the minimum  *)
(* and maximum dist of the un-resampled path.                              *)
C3_ResampledToNum ==
  (IsVertexCall /\ args.num.kind = "int" /\ args.num.val >= 2 /\ Len(df) >= 4) =>
    /\ raised = "none"
    /\ Len(ret) = args.num.val
    /\ ret[1].dist = SetMin(DistSet(Unresampled))
    /\ ret[Len(ret)].dist = SetMax(DistSet(Unresampled))

(* C4: with num given, no dist of the returned table lies outside          *)
(* [min(dist), max(dist)] of the un-resampled path, whether the resampling *)
(* went through or fell back.                                              *)
C4_NoExtrapolation ==
  (IsVertexCall /\ args.num.kind # "none" /\ raised = "none") =>
    \A i \in 1..Len(ret) :
      /\ SetMin(DistSet(Unresampled)) <= ret[i].dist
      /\ ret[i].dist <= SetMax(DistSet(Unresampled))

C4_Witness ==
  /\ IsVertexCall /\ args.num.kind = "int" /\ raised = "none" /\ ~logged
  /\ Len(ret) >= 3
  /\ \E i \in 1..Len(ret) : ret[i].dist \notin DistSet(Unresampled)

(* C5: a vertex-path call with num given (an integer >= 1) on fewer than 4 *)
(* vertices raises nothing and returns the un-resampled rows.              *)
C5_FewVerticesIdentity ==
  (IsVertexCall /\ args.num.kind = "int" /\ args.num.val >= 1 /\ Len(df) < 4) =>
    /\ raised = "none"
    /\ ret = Unresampled

(* What the try block raised in the call the state records. *)
RaisedInside ==
  resample_raises(sort_values(cum_dist(df, args.reverse)), args.num)

(* C6 as stated: whatever the resampling step raises is caught: the call   *)
(* does not raise and returns the un-resampled path.                       *)
C6_AnyExceptionCaught ==
  (IsVertexCall /\ args.num.kind # "none" /\ RaisedInside # "none") =>
    /\ raised = "none"
    /\ ret = Unresampled

(* C6 amended: a ValueError raised by the resampling step is caught: the   *)
(* call logs, does not raise and returns the un-resampled path; an         *)
(* exception of another kind (a TypeError for a num that is no integer)    *)
(* leaves create_profile.                                                  *)
C6_ValueErrorCaught ==
  (IsVertexCall /\ args.num.kind # "none") =>
    /\ RaisedInside = "ValueError" => raised = "none" /\ logged /\ ret = Unresampled
    /\ RaisedInside \notin {"none", "ValueError"} => raised = RaisedInside /\ ~logged

C6_Witness ==
  /\ IsVertexCall /\ args.num.kind = "int" /\ args.num.val >= 3
  /\ RaisedInside = "ValueError"
  /\ logged /\ raised = "none" /\ Len(ret) >= 2

(* C7: every table create_profile returns has exactly the columns x, y and *)
(* dist, the index 0..n-1, dist >= 0, and dist non-decreasing in row order.*)
C7_ProfileInvariant ==
  (op = "create_profile" /\ raised = "none") =>
    /\ \A i \in 1..Len(ret) :
         /\ DOMAIN ret[i] = {"index", "x", "y", "dist"}
         /\ ret[i].index = i - 1
         /\ ret[i].dist >= 0
    /\ \A i \in 2..Len(ret) : ret[i - 1].dist <= ret[i].dist

C7_Witness ==
  /\ IsVertexCall /\ raised = "none" /\ args.num.kind = "none" /\ args.reverse
  /\ Len(ret) >= 3

(* The bounds a shorten call filters with: the arguments, or the table's   *)
(* own largest and smallest dist where an argument was omitted.            *)
UsedMax == IF args.max_dist = None THEN SetMax(DistSet(df)) ELSE args.max_dist[1]

UsedMin == IF args.min_dist = None THEN SetMin(DistSet(df)) ELSE args.min_dist[1]

Labels(tbl) == {tbl[i].index : i \in 1..Len(tbl)}

C9_DefaultBoundsNoOp ==
  (op = "shorten" /\ args.max_dist = None /\ args.min_dist = None
     /\ Cardinality(DistSet(df)) >= 3) =>
    /\ raised = "none"
    /\ Len(ret) = Len(df)
    /\ \A i \in 1..Len(ret) :
         ret[i].index = df[i].index /\ ret[i].x = df[i].x /\ ret[i].y = df[i].y

(* C10: in the table shorten returns, dist of every row is the straight-   *)
(* line distance from that row to the first returned row.                  *)
C10_DistFromFirstRetained ==
  (op = "shorten" /\ raised = "none") =>
    \A i \in 1..Len(ret) :
      ret[i].dist = Euclid(ret[i].x, ret[i].y, ret[1].x, ret[1].y)

(* A returned row whose dist is neither the old dist minus the first row's *)
(* old dist nor the path length walked from the first returned row.        *)
C10_Witness ==
  /\ op = "shorten" /\ raised = "none" /\ Len(ret) >= 3
  /\ ret[3].dist # OldDist(ret[3].index) - OldDist(ret[1].index)
  /\ ret[3].dist # Euclid(ret[2].x, ret[2].y, ret[1].x, ret[1].y)
                   + Euclid(ret[3].x, ret[3].y, ret[2].x, ret[2].y)

(* The table passed to the call and the table it returned. *)
DfT == [rows |-> df, meta |-> dfm]

RetT == [rows |-> ret, meta |-> retm]

Occurrences(cols, c) == Cardinality({k \in 1..Len(cols) : cols[k] = c})

(* C11: when sample_grids returns, the table returned without the sampled  *)
(* column equals the table passed without any column of that name (values, *)
(* column order, row order, index labels, index name), and the sampled     *)
(* column is there exactly once; otherwise the call has raised.            *)
C11_FrameEquality ==
  (op = "sample_grids" /\ raised = "none") =>
    /\ frame_equal(drop_columns(RetT, args.sampled_name),
                   drop_columns(DfT, args.sampled_name))
    /\ Occurrences(retm.cols, args.sampled_name) = 1
    /\ Len(retm.cols) = Len(SeqWithout(dfm.cols, args.sampled_name)) + 1
    /\ \A i \in 1..Len(ret) :
         ret[i][args.sampled_name] = grid_value(args.grid, ret[i].x, ret[i].y)

(* A table with two sampled columns, one of them re-sampled to new values. *)
C11_Witness ==
  /\ op = "sample_grids" /\ raised = "none"
  /\ args.sampled_name \in Range(dfm.cols)
  /\ Len(dfm.cols) = 5
  /\ ret # df

(* C12: sample_grids applied with the same grid and sampled_name to the    *)
(* table it has just returned returns that table again, the column         *)
(* sampled_name in it exactly once.                                        *)
C12_Idempotent ==
  [][(/\ op = "sample_grids" /\ raised = "none"
      /\ op' = "sample_grids" /\ args' = args /\ dfm' = retm)
       => (/\ raised' = "none"
           /\ ret' = ret
           /\ retm' = retm
           /\ Occurrences(retm'.cols, args.sampled_name) = 1)]_vars

(* A second application has returned the table it was given, which holds   *)
(* another sampled column as well.                                         *)
C12_Witness ==
  /\ op = "sample_grids" /\ raised = "none"
  /\ args.sampled_name \in Range(dfm.cols)
  /\ Len(dfm.cols) >= 5
  /\ ret = df /\ retm = dfm

RECURSIVE last_order(_)
(* The names of a sequence of calls, each once, in the order of their last *)
(* call.                                                                   *)
last_order(names) ==
  IF names = <<>> THEN <<>>
  ELSE LET n == names[Len(names)]
       IN  Append(SeqWithout(last_order(SubSeq(names, 1, Len(names) - 1)), n), n)

(* C13: after create_profile and sample_grids calls with names n1..nk the  *)
(* columns are x, y, dist and then the sampled columns in the order of     *)
(* their calls: exactly x, y, dist, n1..nk for distinct names.             *)
C13_ColumnOrder ==
  (op \in Chainable /\ raised = "none") =>
    /\ retm.cols = XYD.cols \o last_order(sampled)
    /\ Cardinality(Range(sampled)) = Len(sampled) => retm.cols = XYD.cols \o sampled

C13_Witness ==
  /\ op = "sample_grids" /\ raised = "none"
  /\ Len(sampled) = 3 /\ Cardinality(Range(sampled)) = 3
  /\ retm.cols = XYD.cols \o sampled

(* The layer columns of the table passed to the call. *)
Layers == SubSeq(dfm.cols, 4, Len(dfm.cols))

(* C14: after fill_nans on a table with layers L1..Ln (n >= 2), every      *)
(* position missing in L2 holds L1's value there, every position not       *)
(* missing keeps its value, and L1, x, y, dist are as they were.           *)
C14_FillFromAbove ==
  (op = "fill_nans" /\ Len(Layers) >= 2) =>
    /\ Len(ret) = Len(df)
    /\ retm = dfm
    /\ \A i \in 1..Len(df) :
         /\ df[i][Layers[2]] = NaN => ret[i][Layers[2]] = df[i][Layers[1]]
         /\ \A k \in Range(Layers) : df[i][k] # NaN => ret[i][k] = df[i][k]
         /\ \A k \in {Layers[1], "index", "x", "y", "dist"} : ret[i][k] = df[i][k]

(* A position missing in L2 and present in L1 has been filled. *)
C14_Witness ==
  /\ op = "fill_nans" /\ Len(Layers) >= 2
  /\ \E i \in 1..Len(df) :
       /\ df[i][Layers[2]] = NaN /\ df[i][Layers[1]] # NaN
       /\ ret[i][Layers[2]] = df[i][Layers[1]]

(* C15: a create_profile call with an invalid method, or without the       *)
(* arguments its method needs, raises ValueError before it reads a file or *)
(* computes a distance, and the message names the argument at fault.       *)
C15_ConfigurationError ==
  (op = "create_profile" /\ Misconfigured(args) # {}) =>
    /\ raised = "ValueError"
    /\ effects = <<>>
    /\ msg # None
    /\ Misconfigured(args) \subseteq msg[1].asks

(* C16: plot_profile with clip=True and neither max_dist nor min_dist      *)
(* raises ValueError before any grid is sampled through the backend and    *)
(* before any figure is created.                                           *)
C16_ClipFailsFirst ==
  (/\ op = "plot_profile" /\ args.kw.clip = Some(TRUE)
   /\ args.kw.max_dist = None /\ args.kw.min_dist = None) =>
    /\ raised = "ValueError"
    /\ msg = ClipMessage
    /\ "pygmt.grdtrack" \notin Range(effects)
    /\ "pygmt.Figure" \notin Range(effects)

(* C17: fill_nans leaves the table passed to it as it was and returns a    *)
(* new table: after the call the caller's table still has its missing      *)
(* values (here for a table with a position missing in L2, present in L1). *)
C17_FillNansLeavesInput ==
  (/\ op = "fill_nans" /\ Len(Layers) >= 2
   /\ \E i \in 1..Len(df) : df[i][Layers[2]] = NaN /\ df[i][Layers[1]] # NaN) =>
    /\ arg.rows = df
    /\ ~arg.returned

(* C18: shorten and sample_grids leave the table passed to them as it was  *)
(* (rows, columns, dist values) and what they return is a new table.       *)
C18_InputsUnmodified ==
  op \in {"shorten", "sample_grids"} =>
    /\ arg.rows = df
    /\ arg.meta = dfm
    /\ ~arg.returned

(* shorten has returned fewer rows of a sampled table, dist recomputed. *)
C18_Witness ==
  /\ op = "shorten" /\ raised = "none"
  /\ Len(dfm.cols) >= 4
  /\ Len(ret) < Len(df)
  /\ \E i \in 1..Len(ret) : ret[i].dist # OldDist(ret[i].index)

(* C19: plot_data without clip=True returns df_data with one row for every *)
(* point of the profile create_profile made, dist unchanged.               *)
C19_ClipOnlyWhenAsked ==
  (op = "plot_data" /\ args.kw.clip # Some(TRUE)) =>
    /\ raised = "none"
    /\ Len(data.rows) = Len(df)
    /\ \A i \in 1..Len(df) :
         /\ data.rows[i].x = df[i].x /\ data.rows[i].y = df[i].y
         /\ data.rows[i].dist = df[i].dist

(* C20: for every n >= 1 square_subplots(n) is a tuple of exactly two      *)
(* positive integers (rows, columns) whose product is at least n.          *)
C20_TwoPositiveFactors ==
  op = "square_subplots" =>
    /\ Len(ret) = 2
    /\ ret[1] >= 1 /\ ret[2] >= 1
    /\ ret[1] * ret[2] >= args.n

(* P with its rows in reversed order (P.iloc[::-1]): every row keeps its   *)
(* label.                                                                  *)
RowsReversed(tbl) == [i \in 1..Len(tbl) |-> tbl[Len(tbl) + 1 - i]]

VerticesReversed(vs) == [i \in 1..Len(vs) |-> vs[Len(vs) + 1 - i]]

(* The call on the reversed path without the reverse option. *)
ForwardOnReversed ==
  [args EXCEPT !.reverse = FALSE,
               !.polyline = IF @ = None THEN None ELSE Some(RowsReversed(@[1])),
               !.shapefile = IF @ = None THEN None ELSE Some(VerticesReversed(@[1]))]

(* C21: a vertex-path call with reverse=True returns (or raises, or logs)  *)
(* what the call on the path with its rows in reversed order returns       *)
(* without reverse, the spline being the same function of distance.        *)
C21_ReverseIsReversedInput ==
  (IsVertexCall /\ args.reverse) =>
    LET r == create_profile(ForwardOnReversed, args.spline)
    IN  ret = r.ret /\ raised = r.raised /\ logged = r.logged

(* A reversed call on a path whose forward profile is a different table.   *)
C21_Witness ==
  /\ IsVertexCall /\ args.reverse /\ raised = "none" /\ Len(ret) >= 3
  /\ args.num.kind = "none"
  /\ ret # create_profile([args EXCEPT !.reverse = FALSE], args.spline).ret

(* C22: the table shorten returns is a Profile whatever Profile it was     *)
(* given: its dist is non-negative and non-decreasing in row order.        *)
C22_ShortenedIsProfile ==
  (op = "shorten" /\ raised = "none") =>
    /\ \A i \in 1..Len(ret) : ret[i].dist >= 0
    /\ \A i \in 2..Len(ret) : ret[i - 1].dist <= ret[i].dist

(* C23: plot_profile and plot_data with clip=True raise the ValueError     *)
(* asking for max_dist and min_dist unless both are given.                 *)
C23_ClipNeedsBothBounds ==
  (/\ op \in {"plot_profile", "plot_data"} /\ args.kw.clip = Some(TRUE)
   /\ (args.kw.max_dist = None \/ args.kw.min_dist = None)) =>
    /\ raised = "ValueError"
    /\ msg = ClipMessage

RECURSIVE Created(_)
(* The shapes of the events whose action is "created", in arrival order. *)
Created(events) ==
  IF events = <<>> THEN <<>>
  ELSE LET before == Created(SubSeq(events, 1, Len(events) - 1))
           e == events[Len(events)]
       IN  IF e.action = "created" THEN Append(before, e.shapes) ELSE before

(* C24: the list a draw_lines call returned holds one entry per "created"  *)
(* event delivered to the handler of that call, in arrival order, each the *)
(* list of the shape's coordinates; it is empty when no event has come.    *)
C24_OneEntryPerCreated ==
  \A m \in 1..Len(maps) : heap[maps[m].returned] = Created(maps[m].delivered)

(* C25: the list a draw_lines call returned holds only shapes created on   *)
(* the map of that call, whatever the interleaving of the events of two    *)
(* maps.                                                                   *)
C25_OnlyOwnShapes ==
  \A m \in 1..Len(maps) :
    Range(heap[maps[m].returned]) \subseteq Range(Created(maps[m].delivered))

(* The rows the call with the other value of reverse returns. *)
OtherHalf == points_inside_region(DfT, args.region, ~args.reverse).ret

(* C26: for a region with west <= east and south <= north the calls with   *)
(* reverse=False and reverse=True partition the rows: a row is in the      *)
(* first iff xmin <= x <= xmax and ymin <= y <= ymax and in the second     *)
(* otherwise, in input order; both have the input's columns and no         *)
(* inside_tmp; the input is as it was.                                     *)
C26_Partition ==
  (op = "points_inside_region" /\ valid_region(args.region)) =>
    /\ raised = "none"
    /\ Labels(ret) \cup Labels(OtherHalf) = Labels(df)
    /\ Labels(ret) \cap Labels(OtherHalf) = {}
    /\ Len(ret) + Len(OtherHalf) = Len(df)
    /\ \A i \in 1..Len(df) :
         (df[i] \in Range(ret)) <=>
           ((/\ args.region[1] <= df[i].x /\ df[i].x <= args.region[2]
             /\ args.region[3] <= df[i].y /\ df[i].y <= args.region[4]) <=> ~args.reverse)
    /\ \A i \in 2..Len(ret) : ret[i - 1].index < ret[i].index
    /\ retm = dfm
    /\ \A i \in 1..Len(ret) : "inside_tmp" \notin DOMAIN ret[i]
    /\ arg.rows = df /\ arg.meta = dfm /\ ~arg.returned

(* A table with a point on the border of the region and a point outside. *)
C26_Witness ==
  /\ op = "points_inside_region" /\ raised = "none" /\ ~args.reverse
  /\ Len(ret) >= 1 /\ Len(ret) < Len(df)
  /\ \E i \in 1..Len(ret) : ret[i].x = args.region[2] \/ ret[i].y = args.region[4]

RECURSIVE NearestAbove(_, _)
(* The value of the nearest of the layers k, k-1, .., 1 that is not        *)
(* missing in the row, NaN if they all are.                                *)
NearestAbove(row, k) ==
  IF row[Layers[k]] # NaN \/ k = 1 THEN row[Layers[k]]
  ELSE NearestAbove(row, k - 1)

(* C27: after fill_nans every cell of layer k >= 2 holds the value of the  *)
(* nearest of the layers k, k-1, .., 1 not missing in that row of the      *)
(* input, and is missing only if they all were; fill_nans applied to the   *)
(* table it returned returns the same table.                               *)
C27_FillCascades ==
  /\ [](op = "fill_nans" =>
         \A i \in 1..Len(df) : \A k \in 2..Len(Layers) :
           ret[i][Layers[k]] = NearestAbove(df[i], k))
  /\ [][(op = "fill_nans" /\ op' = "fill_nans") => (ret' = ret /\ retm' = retm)]_vars

(* A run of two missing layers under a layer that is not missing. *)
C27_Witness ==
  /\ op = "fill_nans" /\ Len(Layers) = 3
  /\ \E i \in 1..Len(df) :
       /\ df[i][Layers[1]] # NaN /\ df[i][Layers[2]] = NaN /\ df[i][Layers[3]] = NaN
       /\ ret[i][Layers[3]] = df[i][Layers[1]]

(* C28: sample_grids on a table whose index has a name returns a table    *)
(* with the labels and the index name of the table it was given.           *)
C28_IndexPreserved ==
  (op = "sample_grids" /\ dfm.name # None) =>
    /\ raised = "none"
    /\ retm.name = dfm.name
    /\ Len(ret) = Len(df)
    /\ \A i \in 1..Len(df) : ret[i].index = df[i].index

(* No row of the table passed to shorten lies strictly between the bounds  *)
(* shorten used.                                                           *)
NoRowBetween == \A i \in 1..Len(df) : ~(UsedMin < df[i].dist /\ df[i].dist < UsedMax)

RECURSIVE first_order(_)
(* The names of a sequence of calls, each once, in the order of their      *)
(* first call.                                                             *)
first_order(names) ==
  IF names = <<>> THEN <<>>
  ELSE LET before == first_order(SubSeq(names, 1, Len(names) - 1))
           n == names[Len(names)]
       IN  IF n \in Range(before) THEN before ELSE Append(before, n)

(* C30: sample_grids for a name that is already a column leaves the column *)
(* order as it was, so the layers are in the order of their first          *)
(* sampling, which is the order fill_nans goes by.                         *)
C30_ResampledKeepsPosition ==
  /\ (op = "sample_grids" /\ raised = "none" /\ args.sampled_name \in Range(dfm.cols))
       => retm.cols = dfm.cols
  /\ (op \in Chainable /\ raised = "none")
       => retm.cols = XYD.cols \o first_order(sampled)

====
